---- MODULE Spec2Model ----
(***************************************************************************)
(* Model of dashboard/dashboard.py: a Streamlit script that loads two CSV  *)
(* files through a memoized load_data(), reads three sidebar widgets and   *)
(* recomputes a filter / group / sum / sort pipeline on every rerun.       *)
(* Dates are day numbers; a frame is a sequence of rows, each row carrying *)
(* its pandas index label in the field idx.                                *)
(***************************************************************************)
EXTENDS Integers, Sequences, FiniteSets, TLC

\* ---------------------------------------------------------------- bounds
\* Rows in main-day.csv and main-hour.csv together.
MaxRows == 3
\* Runs of the body of load_data after which the model stops.
MaxReads == 2

NaN == "NaN"

\* ------------------------------------------------------- CSV file contents
\* The rows a daily file is made of: both seasons, equal and unequal totals,
\* two dates, and a weather code that weather_map does not hold.
DayRows ==
    { [date |-> 1, season |-> 1, weather |-> 1, total |-> 10],
      [date |-> 1, season |-> 2, weather |-> 1, total |-> 10],
      [date |-> 1, season |-> 2, weather |-> 2, total |-> 20],
      [date |-> 2, season |-> 1, weather |-> 2, total |-> 20],
      [date |-> 2, season |-> 2, weather |-> 5, total |-> 10] }

\* The rows an hourly file is made of, chosen likewise.
HourRows ==
    { [date |-> 1, hour |-> 0, season |-> 1, weather |-> 1, total |-> 10,
       temperature |-> 20, humidity |-> 50, windspeed |-> 10],
      [date |-> 1, hour |-> 1, season |-> 2, weather |-> 2, total |-> 10,
       temperature |-> 25, humidity |-> 55, windspeed |-> 15],
      [date |-> 2, hour |-> 0, season |-> 1, weather |-> 2, total |-> 20,
       temperature |-> 20, humidity |-> 60, windspeed |-> 10],
      [date |-> 2, hour |-> 1, season |-> 2, weather |-> 5, total |-> 20,
       temperature |-> 30, humidity |-> 50, windspeed |-> 20] }

SeqsUpTo(S, n) == UNION {[1..k -> S] : k \in 0..n}

\* The pairs of files the process may find on disk.  The hourly file has at
\* least one row: the date input takes its bounds from it.
Datasets ==
    { fs \in SeqsUpTo(DayRows, MaxRows) \X SeqsUpTo(HourRows, MaxRows) :
        Len(fs[2]) >= 1 /\ Len(fs[1]) + Len(fs[2]) <= MaxRows }

\* ------------------------------------------------------------ pure helpers
Reverse(s) == [i \in 1..Len(s) |-> s[Len(s) + 1 - i]]

RECURSIVE SumSeq(_)
SumSeq(s) == IF s = <<>> THEN 0 ELSE Head(s) + SumSeq(Tail(s))

Column(df, col) == [i \in 1..Len(df) |-> df[i][col]]

SetMin(S) == CHOOSE x \in S : \A y \in S : x <= y
SetMax(S) == CHOOSE x \in S : \A y \in S : x >= y

ColumnValues(df, col) == {df[i][col] : i \in 1..Len(df)}

\* numpy argsort of the key vector a.  kind "quicksort" gives no promise on
\* the relative order of equal keys; ties says what this build does with them.
Before(a, i, j, ties) ==
    \/ a[i] < a[j]
    \/ a[i] = a[j] /\ (IF ties = "kept" THEN i <= j ELSE i >= j)

RECURSIVE ArgSortRec(_, _, _)
ArgSortRec(a, idxs, ties) ==
    IF idxs = {} THEN <<>>
    ELSE LET m == CHOOSE i \in idxs : \A j \in idxs : Before(a, i, j, ties)
         IN  <<m>> \o ArgSortRec(a, idxs \ {m}, ties)

argsort(a, ties) == ArgSortRec(a, 1..Len(a), ties)

\* pandas nargsort: a descending sort reverses the keys, sorts, and reverses
\* the indexer again.
nargsort(a, ascending, ties) ==
    IF ascending THEN argsort(a, ties)
    ELSE LET n == Len(a)
             p == argsort(Reverse(a), ties)
         IN  Reverse([k \in 1..n |-> n + 1 - p[k]])

sort_values(df, col, ascending, ties) ==
    LET ix == nargsort(Column(df, col), ascending, ties)
    IN  [k \in 1..Len(df) |-> df[ix[k]]]

\* pd.read_csv: rows in file order under a RangeIndex.
read_csv(file) == [i \in 1..Len(file) |-> file[i] @@ [idx |-> i - 1]]

\* weather_map and Series.map(weather_map): a code absent from the dict
\* yields NaN.
weather_map == (1 :> "Clear") @@ (2 :> "Mist/Cloudy") @@
               (3 :> "Light Snow/Rain") @@ (4 :> "Heavy Rain/Ice")

WeatherLabels == {weather_map[c] : c \in DOMAIN weather_map}

\* Mutant: a code absent from the dict falls back to the first label.
map_weather_default(code) ==
    IF code \in DOMAIN weather_map THEN weather_map[code] ELSE weather_map[1]

map_weather(code) ==
    IF code \in DOMAIN weather_map THEN weather_map[code] ELSE NaN

\* Mutant: the start of the range is exclusive.
date_filter_open_start(df, start, end) ==
    SelectSeq(df, LAMBDA r : r.date > start /\ r.date <= end)

\* Mutant: the end of the range is exclusive.
date_filter_open_end(df, start, end) ==
    SelectSeq(df, LAMBDA r : r.date >= start /\ r.date < end)

\* Boolean-mask row selection df[(df.date >= start) & (df.date <= end)].
date_filter(df, start, end) ==
    SelectSeq(df, LAMBDA r : r.date >= start /\ r.date <= end)

\* Mutant: the selection drops the other rows from its source in place.
source_after_filter_inplace(df, start, end) ==
    SelectSeq(df, LAMBDA r : r.date >= start /\ r.date <= end)

\* The frame the filter was taken from, after the selection and .copy():
\* the selection builds a new frame and leaves its source alone.
source_after_filter(df, start, end) == df

\* df['weather_desc'] = df.weather.map(weather_map)
add_weather_desc(df) ==
    [i \in 1..Len(df) |-> df[i] @@ [weather_desc |-> map_weather(df[i].weather)]]

\* Mutant: the two masks are joined with | in place of &.
isin_filter_or(df, seasons, labels) ==
    SelectSeq(df, LAMBDA r : r.season \in seasons \/ r.weather_desc \in labels)

\* df[df.season.isin(season_options) & df.weather_desc.isin(weather_options)]
isin_filter(df, seasons, labels) ==
    SelectSeq(df, LAMBDA r : r.season \in seasons /\ r.weather_desc \in labels)

apply_filters(df, start, end, seasons, labels) ==
    isin_filter(add_weather_desc(date_filter(df, start, end)), seasons, labels)

\* Series.mean() rendered with f"{x:.<decimals>f}": NaN on an empty column,
\* else the mean scaled by 10^decimals and rounded half to even.
RoundHalfEven(num, den) ==
    LET q == num \div den
        r == num % den
    IN  IF 2 * r < den THEN q
        ELSE IF 2 * r > den THEN q + 1
        ELSE IF q % 2 = 0 THEN q ELSE q + 1

mean_fmt(df, col, scale) ==
    IF Len(df) = 0 THEN [nan |-> TRUE, scaled |-> 0]
    ELSE [nan |-> FALSE,
          scaled |-> RoundHalfEven(SumSeq(Column(df, col)) * scale, Len(df))]

\* Rank of a weather label in the lexicographic order groupby sorts keys by.
LabelRank == ("Clear" :> 1) @@ ("Heavy Rain/Ice" :> 2) @@
             ("Light Snow/Rain" :> 3) @@ ("Mist/Cloudy" :> 4)

RECURSIVE SortedKeys(_, _)
SortedKeys(keys, rank) ==
    IF keys = {} THEN <<>>
    ELSE LET k == CHOOSE x \in keys : \A y \in keys : rank[x] <= rank[y]
         IN  <<k>> \o SortedKeys(keys \ {k}, rank)

group_total(df, col, k) ==
    SumSeq(Column(SelectSeq(df, LAMBDA r : r[col] = k), "total"))

\* df.groupby("season").total.sum().reset_index(): one row per key, keys
\* ascending.
groupby_season(df) ==
    LET keys == ColumnValues(df, "season")
        ks   == SortedKeys(keys, [k \in keys |-> k])
    IN  [i \in 1..Len(ks) |-> [season |-> ks[i],
                                total |-> group_total(df, "season", ks[i])]]

\* df.groupby("weather_desc").total.sum().reset_index(): NaN keys dropped.
groupby_weather(df) ==
    LET keys == ColumnValues(df, "weather_desc") \ {NaN}
        ks   == SortedKeys(keys, LabelRank)
    IN  [i \in 1..Len(ks) |-> [weather_desc |-> ks[i],
                                total |-> group_total(df, "weather_desc", ks[i])]]

\* Mutant: the summary is sorted in ascending order.
season_summary_ascending(df, ties) ==
    sort_values(groupby_season(df), "total", TRUE, ties)

season_summary_of(df, ties) ==
    sort_values(groupby_season(df), "total", FALSE, ties)

weather_summary_of(df, ties) ==
    sort_values(groupby_weather(df), "total", FALSE, ties)

\* load_data body: both CSVs read, the hourly frame sorted by date.
load_data_body(dayf, hourf, ties) ==
    [day  |-> read_csv(dayf),
     hour |-> sort_values(read_csv(hourf), "date", TRUE, ties)]

\* Mutant: no memoization, the body runs on every call.
load_data_uncached(c, dayf, hourf, ties) ==
    LET v == load_data_body(dayf, hourf, ties)
    IN  [ret |-> v, cache |-> <<v>>, read |-> 1]

\* @st.cache_data on a function without arguments: the body runs when the
\* cache holds no entry, and its result is stored; otherwise the stored
\* result is handed out.  c is <<>> or <<entry>>.
load_data(c, dayf, hourf, ties) ==
    IF c # <<>> THEN [ret |-> c[1], cache |-> c, read |-> 0]
    ELSE LET v == load_data_body(dayf, hourf, ties)
         IN  [ret |-> v, cache |-> <<v>>, read |-> 1]

\* One top-to-bottom execution of the script below the sidebar, lines 59-134.
\* season_summary.iloc[0] raises IndexError on an empty summary, which ends
\* the run before the top-season text and everything after it.
script(day, hour, start, end, seasons, labels, ties) ==
    LET hf == apply_filters(hour, start, end, seasons, labels)
        df == apply_filters(day, start, end, seasons, labels)
        ss == season_summary_of(df, ties)
    IN  [df_day  |-> source_after_filter(day, start, end),
         df_hour |-> source_after_filter(hour, start, end),
         df_hour_filtered |-> hf,
         df_day_filtered  |-> df,
         kpi |-> [temperature |-> mean_fmt(hf, "temperature", 10),
                  humidity    |-> mean_fmt(hf, "humidity", 1),
                  windspeed   |-> mean_fmt(hf, "windspeed", 10)],
         season_summary  |-> ss,
         top_season      |-> IF ss = <<>> THEN <<>> ELSE <<ss[1]>>,
         weather_summary |-> IF ss = <<>> THEN <<>>
                             ELSE weather_summary_of(hf, ties),
         fault |-> IF ss = <<>> THEN "IndexError" ELSE "none"]

\* ------------------------------------------------------------------ state
VARIABLES
    day_file, hour_file,   \* contents of main-day.csv and main-hour.csv
    quicksort_ties,        \* what this build's quicksort does with equal keys
    cache, loads,          \* st.cache_data entry of load_data; runs of its body
    started,               \* a browser session has run the script
    date_range, season_options, weather_options,    \* widget values
    df_day, df_hour,       \* the script's globals after the run
    df_hour_filtered, df_day_filtered,
    kpi, season_summary, top_season, weather_summary,
    fault                  \* exception that ended the last run, or "none"

vars == <<day_file, hour_file, quicksort_ties, cache, loads, started,
          date_range, season_options, weather_options, df_day, df_hour,
          df_hour_filtered, df_day_filtered, kpi, season_summary, top_season,
          weather_summary, fault>>

files == <<day_file, hour_file, quicksort_ties>>
widgets == <<date_range, season_options, weather_options>>
outputs == <<df_hour_filtered, df_day_filtered, kpi, season_summary,
             top_season, weather_summary, fault>>

Init ==
    /\ \E fs \in Datasets : day_file = fs[1] /\ hour_file = fs[2]
    /\ quicksort_ties \in {"kept", "reversed"}
    /\ cache = <<>>
    /\ loads = 0
    /\ started = FALSE
    /\ date_range = <<1, 1>>
    /\ season_options = {}
    /\ weather_options = {}
    /\ df_day = <<>>
    /\ df_hour = <<>>
    /\ df_hour_filtered = <<>>
    /\ df_day_filtered = <<>>
    /\ kpi = [temperature |-> mean_fmt(<<>>, "temperature", 10),
              humidity    |-> mean_fmt(<<>>, "humidity", 1),
              windspeed   |-> mean_fmt(<<>>, "windspeed", 10)]
    /\ season_summary = <<>>
    /\ top_season = <<>>
    /\ weather_summary = <<>>
    /\ fault = "none"

\* A rerun of the whole script with the widget values dr, so, wo; the
\* widgets keep the values the user gave them.
Run(ld, dr, so, wo) ==
    \E r \in {script(ld.ret.day, ld.ret.hour, dr[1], dr[2], so, wo,
                    quicksort_ties)} :
        /\ cache' = ld.cache
        /\ loads' = loads + ld.read
        /\ started' = TRUE
        /\ date_range' = dr
        /\ season_options' = so
        /\ weather_options' = wo
        /\ df_day' = r.df_day
        /\ df_hour' = r.df_hour
        /\ df_hour_filtered' = r.df_hour_filtered
        /\ df_day_filtered' = r.df_day_filtered
        /\ kpi' = r.kpi
        /\ season_summary' = r.season_summary
        /\ top_season' = r.top_season
        /\ weather_summary' = r.weather_summary
        /\ fault' = r.fault
        /\ UNCHANGED files

\* A browser session opens (or reloads) the page: every widget takes its
\* default, computed from the loaded frames.
OpenSession ==
    /\ loads < MaxReads
    /\ \E ld \in {load_data(cache, day_file, hour_file, quicksort_ties)} :
       \E ds \in {ColumnValues(ld.ret.hour, "date")} :
         Run(ld, <<SetMin(ds), SetMax(ds)>>,
             ColumnValues(ld.ret.day, "season"), WeatherLabels)

\* The user picks a new range in the date input, bounded by min_value and
\* max_value.
ChangeDateRange ==
    /\ started
    /\ loads < MaxReads
    /\ \E ld \in {load_data(cache, day_file, hour_file, quicksort_ties)} :
       \E ds \in {ColumnValues(ld.ret.hour, "date")} :
       \E s \in SetMin(ds)..SetMax(ds) : \E e \in s..SetMax(ds) :
         /\ <<s, e>> # date_range
         /\ Run(ld, <<s, e>>, season_options, weather_options)

\* The user adds or removes one season in the season multiselect, whose
\* options are the seasons of the daily frame.
ToggleSeason ==
    /\ started
    /\ loads < MaxReads
    /\ \E ld \in {load_data(cache, day_file, hour_file, quicksort_ties)} :
       \E s \in ColumnValues(ld.ret.day, "season") :
         Run(ld, date_range,
             IF s \in season_options THEN season_options \ {s}
             ELSE season_options \cup {s},
             weather_options)

\* The user adds or removes one label in the weather multiselect.
ToggleWeather ==
    /\ started
    /\ loads < MaxReads
    /\ \E ld \in {load_data(cache, day_file, hour_file, quicksort_ties)} :
       \E l \in WeatherLabels :
         Run(ld, date_range, season_options,
             IF l \in weather_options THEN weather_options \ {l}
             ELSE weather_options \cup {l})

\* The user asks for a rerun without touching a widget.
Rerun ==
    /\ started
    /\ loads < MaxReads
    /\ \E ld \in {load_data(cache, day_file, hour_file, quicksort_ties)} :
         Run(ld, date_range, season_options, weather_options)

Next ==
    \/ OpenSession
    \/ ChangeDateRange
    \/ ToggleSeason
    \/ ToggleWeather
    \/ Rerun

Spec == Init /\ [][Next]_vars

\* ------------------------------------------------ vocabulary of the claims
Idxs(df) == {df[i].idx : i \in 1..Len(df)}

\* Row f of a filtered frame is row idx of the loaded frame df, unchanged.
FromLoaded(f, df) ==
    \E i \in 1..Len(df) :
        /\ df[i].idx = f.idx
        /\ \A c \in DOMAIN df[i] : f[c] = df[i][c]

InDateRange(r) == date_range[1] <= r.date /\ r.date <= date_range[2]

LabelAccepted(code) ==
    code \in DOMAIN weather_map /\ weather_map[code] \in weather_options

Passes(r) ==
    InDateRange(r) /\ r.season \in season_options /\ LabelAccepted(r.weather)

SumTotals(df) == SumSeq(Column(df, "total"))

Completed == started /\ fault = "none"

DefaultSelection ==
    /\ date_range = <<SetMin(ColumnValues(df_hour, "date")),
                      SetMax(ColumnValues(df_hour, "date"))>>
    /\ season_options = ColumnValues(df_day, "season")
    /\ weather_options = WeatherLabels

\* ------------------------------------------------------------------ claims

\* C1: when the filters exclude every hourly and every daily row, the run
\* ends without an exception, both summaries are empty and the three
\* averages are rendered as undefined.
C1_EmptySelectionCompletes ==
    (started /\ df_hour_filtered = <<>> /\ df_day_filtered = <<>>) =>
        /\ fault = "none"
        /\ season_summary = <<>>
        /\ weather_summary = <<>>
        /\ kpi.temperature.nan /\ kpi.humidity.nan /\ kpi.windspeed.nan

\* C2: each filtered frame holds only rows of the loaded frame, each at most
\* once and each dated within [start, end]; a row dated exactly start or
\* exactly end that passes the season and weather steps is kept.
DateFiltered(loaded, filtered) ==
    /\ \A i \in 1..Len(filtered) :
         FromLoaded(filtered[i], loaded) /\ InDateRange(filtered[i])
    /\ Cardinality(Idxs(filtered)) = Len(filtered)
    /\ \A j \in 1..Len(loaded) :
         ( /\ loaded[j].date \in {date_range[1], date_range[2]}
           /\ loaded[j].season \in season_options
           /\ LabelAccepted(loaded[j].weather) )
         => loaded[j].idx \in Idxs(filtered)

C2_DateRangeInclusive ==
    started => /\ DateFiltered(df_hour, df_hour_filtered)
               /\ DateFiltered(df_day, df_day_filtered)

C2_Witness ==
    /\ started
    /\ date_range = <<2, 2>>
    /\ \E i \in 1..Len(df_hour) : df_hour[i].date = 1
    /\ \E i \in 1..Len(df_hour_filtered) : df_hour_filtered[i].date = 2
    /\ \E i \in 1..Len(df_day_filtered) : df_day_filtered[i].date = 2

\* C3: every row of either filtered frame has its season among the accepted
\* seasons and its weather label, the one weather_map gives its code, among
\* the accepted labels.
SeasonAndLabelAccepted(filtered) ==
    \A i \in 1..Len(filtered) :
        /\ filtered[i].season \in season_options
        /\ filtered[i].weather_desc \in weather_options
        /\ filtered[i].weather \in DOMAIN weather_map
        /\ filtered[i].weather_desc = weather_map[filtered[i].weather]

C3_OnlyAcceptedRows ==
    started => /\ SeasonAndLabelAccepted(df_hour_filtered)
               /\ SeasonAndLabelAccepted(df_day_filtered)

SeasonExcludes(loaded) ==
    \E i \in 1..Len(loaded) :
        InDateRange(loaded[i]) /\ loaded[i].season \notin season_options

LabelExcludes(loaded) ==
    \E i \in 1..Len(loaded) :
        /\ InDateRange(loaded[i])
        /\ loaded[i].season \in season_options
        /\ loaded[i].weather \in DOMAIN weather_map
        /\ ~LabelAccepted(loaded[i].weather)

C3_Witness ==
    /\ Completed
    /\ SeasonExcludes(df_hour) \/ SeasonExcludes(df_day)
    /\ LabelExcludes(df_hour) \/ LabelExcludes(df_day)

\* C4: the group totals of the season summary add up to the total of the
\* filtered daily frame, and the group totals of the weather summary add up
\* to the total of the filtered hourly frame.
C4_GroupTotalsAddUp ==
    started => /\ SumTotals(season_summary) = SumTotals(df_day_filtered)
               /\ SumTotals(weather_summary) = SumTotals(df_hour_filtered)

\* On a run that reaches the weather summary both equalities hold.
GroupTotalsAddUpWhenCompleted ==
    Completed => /\ SumTotals(season_summary) = SumTotals(df_day_filtered)
                 /\ SumTotals(weather_summary) = SumTotals(df_hour_filtered)

\* C5: with a non-empty filtered daily frame the reported top season is the
\* first row of the season summary, its count is that season's summed total,
\* and no season of the filtered daily frame has a larger summed total.
SeasonSum(s) ==
    SumSeq(Column(SelectSeq(df_day_filtered, LAMBDA r : r.season = s), "total"))

C5_TopSeasonIsMaximum ==
    (started /\ df_day_filtered # <<>>) =>
        /\ fault = "none"
        /\ Len(top_season) = 1
        /\ top_season[1] = season_summary[1]
        /\ top_season[1].season \in ColumnValues(df_day_filtered, "season")
        /\ top_season[1].total = SeasonSum(top_season[1].season)
        /\ \A s \in ColumnValues(df_day_filtered, "season") :
             SeasonSum(s) <= top_season[1].total

C5_Witness ==
    /\ started
    /\ Len(season_summary) = 2
    /\ Len(top_season) = 1
    /\ top_season[1].season = 2
    /\ season_summary[2].total < top_season[1].total

\* C6: in both summaries every key has one row, rows are in descending
\* order of summed total, and rows of equal total are in the key order of
\* the group-by output.
SortedStable(summary, col, rank) ==
    \A i \in 1..Len(summary) : \A j \in 1..Len(summary) :
        i < j =>
          /\ summary[i][col] # summary[j][col]
          /\ summary[i].total >= summary[j].total
          /\ summary[i].total = summary[j].total
               => rank[summary[i][col]] < rank[summary[j][col]]

Sorted(summary, col) ==
    \A i \in 1..Len(summary) : \A j \in 1..Len(summary) :
        i < j => /\ summary[i][col] # summary[j][col]
                 /\ summary[i].total >= summary[j].total

SummariesSorted ==
    started => /\ Sorted(season_summary, "season")
               /\ Sorted(weather_summary, "weather_desc")

\* C7: a row whose weather code is outside weather_map gets the missing
\* label, is in neither filtered frame whatever labels are accepted, and no
\* summary row carries the missing label.
UnmappedExcluded(loaded, filtered) ==
    \A j \in 1..Len(loaded) :
        loaded[j].weather \notin DOMAIN weather_map =>
            /\ map_weather(loaded[j].weather) = NaN
            /\ loaded[j].idx \notin Idxs(filtered)

C7_UnmappedCodeExcluded ==
    started =>
        /\ UnmappedExcluded(df_hour, df_hour_filtered)
        /\ UnmappedExcluded(df_day, df_day_filtered)
        /\ \A i \in 1..Len(weather_summary) :
             weather_summary[i].weather_desc \in WeatherLabels

C7_Witness ==
    /\ Completed
    /\ weather_options = WeatherLabels
    /\ df_hour_filtered # <<>>
    /\ \E j \in 1..Len(df_hour) :
         /\ df_hour[j].weather \notin DOMAIN weather_map
         /\ InDateRange(df_hour[j])
         /\ df_hour[j].season \in season_options

\* C8: the body of load_data, which reads the two files, runs once: in the
\* first run of the script, and in no later one.
C8_FilesReadOnce ==
    /\ loads <= 1
    /\ started => loads = 1

C8_Witness ==
    /\ Completed
    /\ loads = 1
    /\ weather_options # WeatherLabels
    /\ season_options # ColumnValues(df_day, "season")

\* C9: once loaded, the cached frames never change, the frames a run works
\* on are the cached ones also after the filters have been applied, and a
\* run under unchanged widget values repeats the previous outputs.
C9_LoadedFramesImmutable ==
    [][ /\ cache # <<>> => cache' = cache
        /\ cache' # <<>>
        /\ df_day' = cache'[1].day
        /\ df_hour' = cache'[1].hour
        /\ (started /\ widgets' = widgets) => outputs' = outputs ]_vars

C9_Witness ==
    /\ Completed
    /\ weather_options # WeatherLabels
    /\ df_hour_filtered # <<>>
    /\ Len(df_hour_filtered) < Len(df_hour)

\* C10 as stated: every loaded row that lies in the date range, has an
\* accepted season and a code mapped to an accepted label is in its filtered
\* frame; under the default selection, with every hourly code in weather_map,
\* the filtered hourly frame is the whole hourly frame.
AllPassingRowsKept ==
    /\ \A j \in 1..Len(df_hour) :
         Passes(df_hour[j]) => df_hour[j].idx \in Idxs(df_hour_filtered)
    /\ \A j \in 1..Len(df_day) :
         Passes(df_day[j]) => df_day[j].idx \in Idxs(df_day_filtered)

C10_FilterComplete ==
    started =>
        /\ AllPassingRowsKept
        /\ ( /\ DefaultSelection
             /\ ColumnValues(df_hour, "weather") \subseteq DOMAIN weather_map )
           => Idxs(df_hour_filtered) = Idxs(df_hour)

\* C10 as amended: the same, where the default selection keeps the whole
\* hourly frame provided also every season of the hourly frame occurs in the
\* daily frame, the frame the season options are taken from.
C10_FilterCompleteAmended ==
    started =>
        /\ AllPassingRowsKept
        /\ ( /\ DefaultSelection
             /\ ColumnValues(df_hour, "weather") \subseteq DOMAIN weather_map
             /\ ColumnValues(df_hour, "season")
                  \subseteq ColumnValues(df_day, "season") )
           => Idxs(df_hour_filtered) = Idxs(df_hour)

C10_Witness ==
    /\ Completed
    /\ DefaultSelection
    /\ ColumnValues(df_hour, "weather") \subseteq DOMAIN weather_map
    /\ ColumnValues(df_hour, "season") \subseteq ColumnValues(df_day, "season")
    /\ date_range[1] < date_range[2]
    /\ Len(df_hour_filtered) = 2

====
